---- MODULE Spec2Model ----
(***************************************************************************)
(* Wallet ledger service: controllers/walletController.js over the         *)
(* Mongoose model models/wallet.js.                                        *)
(*                                                                         *)
(* Each Express handler is an async function; every `await` of a store     *)
(* call is a point where other handlers run, so a handler is one action    *)
(* per awaited store call.  The store is MongoDB: reads outside a          *)
(* transaction see the committed documents; a transaction reads the        *)
(* document as committed at its first read, keeps its write private until  *)
(* commit, and its write fails with a WriteConflict when the document was  *)
(* written (committed or pending) by someone else since that read.         *)
(*                                                                         *)
(* Amounts and balances are integers; dates and descriptions are left out  *)
(* (no handler branches on them).  uuid.v4() is a fresh-value generator.   *)
(***************************************************************************)
EXTENDS Integers, Sequences, FiniteSets, TLC

VARIABLES
    wallets,       \* the wallets collection, in insertion (natural) order
    nextUuid,      \* number of values uuid.v4() has produced
    pc,            \* position of each handler invocation
    req,           \* the request each invocation is serving
    local,         \* the handler's `wallet` / `newWallet` document: <<>> or <<doc>>
    snapshot,      \* the document as the invocation's transaction read it
    txn,           \* state of the driver transaction of the invocation's session
    session,       \* state of the session the invocation opened
    pending,       \* the transaction's uncommitted write: <<>> or <<doc>>
    resp,          \* the response sent by the invocation
    openSessions,  \* sessions started and not yet ended
    reqs,          \* requests accepted so far
    faults,        \* store errors injected so far
    okSum,         \* per wallet id: sum of the amounts of transact calls answered 200
    okCount,       \* per wallet id: number of transact calls answered 200
    returned       \* per name: ids that completed setup calls have returned

vars == <<wallets, nextUuid, pc, req, local, snapshot, txn, session, pending, resp,
          openSessions, reqs, faults, okSum, okCount, returned>>

----------------------------------------------------------------------------
(* Bounds *)

MaxReqs == 3
MaxFaults == 1

\* handler invocations that can be in progress at once
Procs == {1, 2}
Names == {"alice", "bob"}
\* request bodies for POST /setup: balance 0 violates positive()
SetupBalances == {0, 2}
\* request bodies for POST /transact
Amounts == {-3, -2, 0, 1}
\* query values for GET /transactions
SkipVals == {-1, 0, 1, 3}
LimitVals == {-1, 0, 1}

\* every value uuid.v4() can have produced: two per setup, one per transact
MaxUuid == 2 * MaxReqs
Uuids == 1..MaxUuid
\* 0 is a well-formed uuid no wallet has; -1 is a string that is no uuid
NoSuchId == 0
Malformed == -1

----------------------------------------------------------------------------
(* Pure helpers *)

Min(a, b) == IF a < b THEN a ELSE b
Max(a, b) == IF a > b THEN a ELSE b

RECURSIVE SumAmounts(_)
SumAmounts(s) == IF s = <<>> THEN 0 ELSE s[1].amount + SumAmounts(Tail(s))

\* variant: the schema asks min(0) where the code asks positive()
ValidSetupNonNegative(balance) == balance >= 0
\* Joi: balance number().positive().required()
ValidSetup(balance) == balance > 0

\* variant: the two tags are swapped
TxTypeSwapped(amount) == IF amount >= 0 THEN "DEBIT" ELSE "CREDIT"
\* type: amount >= 0 ? 'CREDIT' : 'DEBIT'
TxType(amount) == IF amount >= 0 THEN "CREDIT" ELSE "DEBIT"

\* variant: the check looks at the balance before the debit
InsufficientFundsBeforeDebit(balance, amount) == amount < 0 /\ balance < 0
\* variant: the check lets a debit take the balance to -1
InsufficientFundsOffByOne(balance, amount) == amount < 0 /\ balance + amount < -1
\* amount < 0 && wallet.balance + amount < 0
InsufficientFunds(balance, amount) == amount < 0 /\ balance + amount < 0

\* variant: the zero check is written for negative amounts
InvalidAmountNegative(amount) == amount < 0
\* amount === 0
InvalidAmount(amount) == amount = 0

\* variant: the amount is subtracted
NewBalanceSubtract(balance, amount) == balance - amount
\* wallet.balance += amount
NewBalance(balance, amount) == balance + amount

\* JavaScript `n || d` on a number: 0 is falsy
JsOr(n, d) == IF n = 0 THEN d ELSE n

DefaultLimit == 10
\* Math.max(0, parseInt(req.query.skip) || 0)
SkipOf(q) == Max(0, JsOr(q, 0))
\* Math.max(1, parseInt(req.query.limit) || 10)
LimitOf(q) == Max(1, JsOr(q, DefaultLimit))

\* variant: the slice takes one element more than limit
SliceInclusive(s, skip, limit) == SubSeq(s, skip + 1, Min(skip + limit + 1, Len(s)))
\* MongoDB projection { $slice: [skip, limit] } with skip >= 0, limit > 0
Slice(s, skip, limit) == SubSeq(s, skip + 1, Min(skip + limit, Len(s)))

\* variant: the format test accepts every id
IsUuidAny(id) == TRUE
\* the uuidRegex test of getWalletDetails
IsUuid(id) == id >= 0

----------------------------------------------------------------------------
(* The store *)

\* Wallet.findById(id): <<>> or <<doc>>
FindById(id) == SelectSeq(wallets, LAMBDA w : w.id = id)

\* Wallet.findOne({ name }): the first match in natural order, <<>> if none
FindOneByName(name) ==
    LET m == SelectSeq(wallets, LAMBDA w : w.name = name)
    IN  IF m = <<>> THEN <<>> ELSE <<m[1]>>

\* variant: the write carries the new balance but not the pushed entry
ReplaceBalanceOnly(d) == [i \in 1..Len(wallets) |->
                  IF wallets[i].id = d.id
                    THEN [wallets[i] EXCEPT !.balance = d.balance]
                    ELSE wallets[i]]
\* variant: the write has no filter on the id
ReplaceEvery(d) == [i \in 1..Len(wallets) |->
                  [wallets[i] EXCEPT !.balance = d.balance,
                                     !.transactions = d.transactions]]
\* the committed collection with document d replacing the one of the same id
Replace(d) == [i \in 1..Len(wallets) |->
                  IF wallets[i].id = d.id THEN d ELSE wallets[i]]

\* variant: the write is made outside any transaction, so nothing conflicts
NoWriteConflict(p, snap) == FALSE
\* a write of d inside p's transaction conflicts when the document changed
\* since p's read or another transaction holds an uncommitted write to it
WriteConflict(p, snap) ==
    \/ FindById(snap.id) # <<snap>>
    \/ \E q \in Procs \ {p} : pending[q] # <<>> /\ pending[q][1].id = snap.id

----------------------------------------------------------------------------
(* Requests and responses *)

NoReq == [op |-> "none", name |-> "", balance |-> 0, walletId |-> 0,
          amount |-> 0, skip |-> 0, limit |-> 0, prior |-> {}]
\* seen: the log of the addressed wallet as fetchTransactions read it
NoResp == [status |-> 0, msg |-> "", id |-> 0, balance |-> 0,
           txId |-> 0, txs |-> <<>>, total |-> 0, seen |-> <<>>]

Respond(status, msg) == [NoResp EXCEPT !.status = status, !.msg = msg]

Free(p) == pc[p] \in {"idle", "done", "hung"}
CanFault == faults < MaxFaults

Init ==
    /\ wallets = <<>>
    /\ nextUuid = 0
    /\ pc = [p \in Procs |-> "idle"]
    /\ req = [p \in Procs |-> NoReq]
    /\ local = [p \in Procs |-> <<>>]
    /\ snapshot = [p \in Procs |-> <<>>]
    /\ txn = [p \in Procs |-> "none"]
    /\ session = [p \in Procs |-> "none"]
    /\ pending = [p \in Procs |-> <<>>]
    /\ resp = [p \in Procs |-> NoResp]
    /\ openSessions = 0
    /\ reqs = 0
    /\ faults = 0
    /\ okSum = [u \in Uuids |-> 0]
    /\ okCount = [u \in Uuids |-> 0]
    /\ returned = [n \in Names |-> {}]

\* the handler sends response r and returns; its locals are gone
Finish(p, r) ==
    /\ pc' = [pc EXCEPT ![p] = "done"]
    /\ resp' = [resp EXCEPT ![p] = r]
    /\ local' = [local EXCEPT ![p] = <<>>]
    /\ snapshot' = [snapshot EXCEPT ![p] = <<>>]

----------------------------------------------------------------------------
(* setupWallet *)

\* lines 14-18: the request arrives and is validated against the schema
SetupStart(p) ==
    \E n \in Names, b \in SetupBalances :
        /\ Free(p)
        /\ reqs < MaxReqs
        /\ reqs' = reqs + 1
        /\ req' = [req EXCEPT ![p] = [NoReq EXCEPT !.op = "setup", !.name = n,
                                        !.balance = b, !.prior = returned[n]]]
        /\ txn' = [txn EXCEPT ![p] = "none"]
        /\ session' = [session EXCEPT ![p] = "none"]
        /\ IF ValidSetup(b)
             THEN /\ pc' = [pc EXCEPT ![p] = "s_find"]
                  /\ resp' = [resp EXCEPT ![p] = NoResp]
                  /\ UNCHANGED <<local, snapshot>>
             ELSE Finish(p, Respond(400, "validation"))
        /\ UNCHANGED <<wallets, nextUuid, pending, openSessions, faults, okSum, okCount,
                       returned>>

\* lines 21-35: findOne by name; answer with the existing wallet or build a new one
SetupFind(p) ==
    /\ pc[p] = "s_find"
    /\ LET e == FindOneByName(req[p].name) IN
         IF e # <<>>
           THEN /\ Finish(p, [Respond(200, "exists") EXCEPT
                                 !.id = e[1].id, !.balance = e[1].balance])
                /\ returned' = [returned EXCEPT ![req[p].name] = @ \cup {e[1].id}]
                /\ UNCHANGED nextUuid
           ELSE /\ nextUuid + 2 <= MaxUuid
                /\ nextUuid' = nextUuid + 2
                /\ local' = [local EXCEPT ![p] = <<
                       [id |-> nextUuid + 1,
                        name |-> req[p].name,
                        balance |-> req[p].balance,
                        transactions |-> <<[id |-> nextUuid + 2,
                                            amount |-> req[p].balance,
                                            type |-> "CREDIT"]>>] >>]
                /\ pc' = [pc EXCEPT ![p] = "s_save"]
                /\ UNCHANGED <<resp, returned, snapshot>>
    /\ UNCHANGED <<wallets, req, txn, session, pending, openSessions, reqs,
                   faults, okSum, okCount>>

\* line 52-61: newWallet.save() inserts the document
SetupSave(p) ==
    /\ pc[p] = "s_save"
    /\ wallets' = Append(wallets, local[p][1])
    /\ Finish(p, [Respond(200, "created") EXCEPT
                     !.id = local[p][1].id,
                     !.balance = req[p].balance,
                     !.txId = local[p][1].transactions[1].id])
    /\ returned' = [returned EXCEPT ![req[p].name] = @ \cup {local[p][1].id}]
    /\ UNCHANGED <<nextUuid, req, txn, session, pending, openSessions,
                   reqs, faults, okSum, okCount>>

\* lines 64-68: findOne or save rejects; the catch answers 400
SetupStoreError(p) ==
    /\ pc[p] \in {"s_find", "s_save"}
    /\ CanFault
    /\ faults' = faults + 1
    /\ Finish(p, Respond(400, "error"))
    /\ UNCHANGED <<wallets, nextUuid, req, txn, session, pending,
                   openSessions, reqs, okSum, okCount, returned>>

----------------------------------------------------------------------------
(* transact *)

\* ids a client can address: those of stored wallets and one that is not stored
TargetIds == {NoSuchId} \cup {wallets[i].id : i \in 1..Len(wallets)}

\* lines 81-87: the request arrives; a session and its transaction are started
TransactStart(p) ==
    \E w \in TargetIds, a \in Amounts :
        /\ Free(p)
        /\ reqs < MaxReqs
        /\ reqs' = reqs + 1
        /\ req' = [req EXCEPT ![p] = [NoReq EXCEPT !.op = "transact",
                                        !.walletId = w, !.amount = a]]
        /\ resp' = [resp EXCEPT ![p] = NoResp]
        /\ session' = [session EXCEPT ![p] = "open"]
        /\ txn' = [txn EXCEPT ![p] = "active"]
        /\ openSessions' = openSessions + 1
        /\ pc' = [pc EXCEPT ![p] = "t_find"]
        /\ UNCHANGED <<wallets, nextUuid, local, snapshot, pending, faults, okSum, okCount,
                       returned>>

\* variant: the log is assigned the new entry instead of being pushed to
UpdatedOverwritingLog(doc, amount, txId) ==
    [doc EXCEPT !.balance = NewBalance(doc.balance, amount),
                !.transactions = <<[id |-> txId, amount |-> amount,
                                    type |-> TxType(amount)]>>]
\* lines 104-112: the wallet object after `balance += amount` and the push
Updated(doc, amount, txId) ==
    [doc EXCEPT !.balance = NewBalance(doc.balance, amount),
                !.transactions = Append(@, [id |-> txId, amount |-> amount,
                                            type |-> TxType(amount)])]

\* lines 91-112: findById in the session, the checks, and the in-memory update
TransactFind(p) ==
    /\ pc[p] = "t_find"
    /\ LET f == FindById(req[p].walletId)
           a == req[p].amount
       IN
         IF f = <<>>
           THEN \* throw new Error('Wallet not found')
                /\ pc' = [pc EXCEPT ![p] = "t_catch"]
                /\ UNCHANGED <<local, snapshot, resp, nextUuid>>
           ELSE IF InsufficientFunds(f[1].balance, a)
           THEN /\ Finish(p, Respond(400, "Insufficient funds"))
                /\ UNCHANGED nextUuid
           ELSE IF InvalidAmount(a)
           THEN /\ Finish(p, Respond(400, "Invalid amount entered"))
                /\ UNCHANGED nextUuid
           ELSE /\ nextUuid < MaxUuid
                /\ nextUuid' = nextUuid + 1
                /\ snapshot' = [snapshot EXCEPT ![p] = f]
                /\ local' = [local EXCEPT ![p] = <<Updated(f[1], a, nextUuid + 1)>>]
                /\ pc' = [pc EXCEPT ![p] = "t_save"]
                /\ UNCHANGED resp
    /\ UNCHANGED <<wallets, req, txn, session, pending, openSessions, reqs,
                   faults, okSum, okCount, returned>>

\* line 115: wallet.save() inside the transaction
TransactSave(p) ==
    /\ pc[p] = "t_save"
    /\ IF WriteConflict(p, snapshot[p][1])
         THEN /\ pc' = [pc EXCEPT ![p] = "t_catch"]
              /\ UNCHANGED pending
         ELSE /\ pending' = [pending EXCEPT ![p] = local[p]]
              /\ pc' = [pc EXCEPT ![p] = "t_commit"]
    /\ UNCHANGED <<wallets, nextUuid, req, local, snapshot, txn, session, resp,
                   openSessions, reqs, faults, okSum, okCount, returned>>

\* lines 116-123: commitTransaction, endSession, the 200 response
TransactCommit(p) ==
    /\ pc[p] = "t_commit"
    /\ wallets' = Replace(pending[p][1])
    /\ pending' = [pending EXCEPT ![p] = <<>>]
    /\ txn' = [txn EXCEPT ![p] = "committed"]
    /\ session' = [session EXCEPT ![p] = "ended"]
    /\ openSessions' = openSessions - 1
    /\ okSum' = [okSum EXCEPT ![req[p].walletId] = @ + req[p].amount]
    /\ okCount' = [okCount EXCEPT ![req[p].walletId] = @ + 1]
    /\ Finish(p, [Respond(200, "ok") EXCEPT
                     !.balance = pending[p][1].balance,
                     !.txId = pending[p][1].transactions[
                                  Len(pending[p][1].transactions)].id])
    /\ UNCHANGED <<nextUuid, req, reqs, faults, returned>>

\* findById or save rejects with a store error: control passes to the catch
TransactStoreError(p) ==
    /\ pc[p] \in {"t_find", "t_save"}
    /\ CanFault
    /\ faults' = faults + 1
    /\ pc' = [pc EXCEPT ![p] = "t_catch"]
    /\ UNCHANGED <<wallets, nextUuid, req, local, snapshot, txn, session, pending, resp,
                   openSessions, reqs, okSum, okCount, returned>>

\* commitTransaction rejects: the driver has moved the transaction to its
\* committed state, the server applies nothing
TransactCommitError(p) ==
    /\ pc[p] = "t_commit"
    /\ CanFault
    /\ faults' = faults + 1
    /\ pending' = [pending EXCEPT ![p] = <<>>]
    /\ txn' = [txn EXCEPT ![p] = "committed"]
    /\ pc' = [pc EXCEPT ![p] = "t_catch"]
    /\ UNCHANGED <<wallets, nextUuid, req, local, snapshot, session, resp, openSessions,
                   reqs, okSum, okCount, returned>>

\* lines 124-130: abortTransaction, endSession, the 500 response.  The driver
\* rejects abortTransaction after commitTransaction was called; that rejection
\* leaves the handler without reaching endSession or the response.
TransactCatch(p) ==
    /\ pc[p] = "t_catch"
    /\ IF txn[p] = "committed"
         THEN /\ pc' = [pc EXCEPT ![p] = "hung"]
              /\ local' = [local EXCEPT ![p] = <<>>]
              /\ snapshot' = [snapshot EXCEPT ![p] = <<>>]
              /\ UNCHANGED <<txn, session, openSessions, resp, pending>>
         ELSE /\ txn' = [txn EXCEPT ![p] = "aborted"]
              /\ pending' = [pending EXCEPT ![p] = <<>>]
              /\ session' = [session EXCEPT ![p] = "ended"]
              /\ openSessions' = openSessions - 1
              /\ Finish(p, Respond(500, "error"))
    /\ UNCHANGED <<wallets, nextUuid, req, reqs, faults, okSum, okCount, returned>>

----------------------------------------------------------------------------
(* fetchTransactions *)

\* lines 155-158: each transaction projected to the response fields
Project(txs, walletId) ==
    [i \in 1..Len(txs) |-> [id |-> txs[i].id, walletId |-> walletId,
                            amount |-> txs[i].amount, type |-> txs[i].type]]

\* a handler that opens no session takes request r in slot p
Serve(p, r) ==
    /\ Free(p)
    /\ reqs < MaxReqs
    /\ reqs' = reqs + 1
    /\ req' = [req EXCEPT ![p] = r]
    /\ txn' = [txn EXCEPT ![p] = "none"]
    /\ session' = [session EXCEPT ![p] = "none"]

\* lines 141-161: skip and limit parsed and clamped, findById with the $slice
\* projection (the handler's only store call), then the response
FetchTransactions(p) ==
    \E w \in TargetIds, s \in SkipVals, l \in LimitVals :
        /\ Serve(p, [NoReq EXCEPT !.op = "fetch", !.walletId = w,
                                  !.skip = s, !.limit = l])
        /\ LET f == FindById(w) IN
             IF f = <<>>
               THEN Finish(p, Respond(404, "Wallet not found"))
               ELSE Finish(p, [Respond(200, "ok") EXCEPT
                        !.txs = Project(Slice(f[1].transactions, SkipOf(s),
                                              LimitOf(l)), w),
                        !.seen = f[1].transactions])
        /\ UNCHANGED <<wallets, nextUuid, pending, openSessions, faults, okSum, okCount,
                       returned>>

\* lines 162-166: findById rejects; the catch answers 500
FetchStoreError(p) ==
    \E w \in TargetIds, s \in SkipVals, l \in LimitVals :
        /\ Serve(p, [NoReq EXCEPT !.op = "fetch", !.walletId = w,
                                  !.skip = s, !.limit = l])
        /\ CanFault
        /\ faults' = faults + 1
        /\ Finish(p, Respond(500, "Error fetching transactions"))
        /\ UNCHANGED <<wallets, nextUuid, pending, openSessions, okSum, okCount, returned>>

----------------------------------------------------------------------------
(* getWalletDetails *)

\* variant: total leaves out the funding entry
SummaryWithoutFunding(doc) ==
    [Respond(200, "ok") EXCEPT !.id = doc.id, !.balance = doc.balance,
                               !.total = Len(doc.transactions) - 1]
\* lines 198-204: the summary of the wallet document
Summary(doc) ==
    [Respond(200, "ok") EXCEPT !.id = doc.id, !.balance = doc.balance,
                               !.total = Len(doc.transactions)]

\* lines 178-204: a malformed id is answered 400 before any store call;
\* otherwise findById (the handler's only store call), then the summary
GetWalletDetails(p) ==
    \E w \in TargetIds \cup {Malformed} :
        /\ Serve(p, [NoReq EXCEPT !.op = "get", !.walletId = w])
        /\ LET f == FindById(w) IN
             IF ~IsUuid(w)
               THEN Finish(p, Respond(400, "Invalid wallet ID format"))
               ELSE IF f = <<>>
               THEN Finish(p, Respond(404, "Wallet not found"))
               ELSE Finish(p, Summary(f[1]))
        /\ UNCHANGED <<wallets, nextUuid, pending, openSessions, faults, okSum, okCount,
                       returned>>

\* lines 205-209: findById rejects; the catch answers 500
GetStoreError(p) ==
    \E w \in TargetIds \cup {Malformed} :
        /\ Serve(p, [NoReq EXCEPT !.op = "get", !.walletId = w])
        /\ IsUuid(w)
        /\ CanFault
        /\ faults' = faults + 1
        /\ Finish(p, Respond(500, "Error fetching wallet details"))
        /\ UNCHANGED <<wallets, nextUuid, pending, openSessions, okSum, okCount, returned>>

----------------------------------------------------------------------------

Next ==
    \E p \in Procs :
        \/ SetupStart(p)
        \/ SetupFind(p)
        \/ SetupSave(p)
        \/ SetupStoreError(p)
        \/ TransactStart(p)
        \/ TransactFind(p)
        \/ TransactSave(p)
        \/ TransactCommit(p)
        \/ TransactStoreError(p)
        \/ TransactCommitError(p)
        \/ TransactCatch(p)
        \/ FetchTransactions(p)
        \/ FetchStoreError(p)
        \/ GetWalletDetails(p)
        \/ GetStoreError(p)

Spec == Init /\ [][Next]_vars

----------------------------------------------------------------------------
(* Properties *)

InFlight(p) == pc[p] \in {"t_find", "t_save", "t_commit", "t_catch"}
NoTransactInFlight == \A p \in Procs : ~InFlight(p)
Stored(id) == FindById(id) # <<>>
Answered(p, op) == req[p].op = op /\ pc[p] = "done"

\* C1: every stored wallet's balance is the sum of the amounts of its log,
\* whose first entry is the initial funding entry.
C1_BalanceIsLogSum ==
    \A i \in 1..Len(wallets) :
        /\ wallets[i].balance = SumAmounts(wallets[i].transactions)
        /\ wallets[i].balance =
              wallets[i].transactions[1].amount
                + SumAmounts(Tail(wallets[i].transactions))

\* a wallet that took a credit and a debit after its funding
C1_Witness ==
    \E i \in 1..Len(wallets) :
        /\ Len(wallets[i].transactions) = 3
        /\ \E k \in 2..3 : wallets[i].transactions[k].amount < 0
        /\ \E k \in 2..3 : wallets[i].transactions[k].amount > 0

\* C2: every stored wallet's balance is >= 0, also when debits on one wallet
\* interleave between their read and their commit.
C2_BalanceNonNegative ==
    \A i \in 1..Len(wallets) : wallets[i].balance >= 0

\* two debits read the same balance; one committed and emptied the wallet,
\* the other was refused at its save
C2_Witness ==
    \E p, q \in Procs :
        /\ p # q /\ faults = 0
        /\ Answered(p, "transact") /\ Answered(q, "transact")
        /\ req[p].walletId = req[q].walletId
        /\ req[p].amount < 0 /\ req[q].amount < 0
        /\ resp[p].status = 200 /\ resp[q].status = 500
        /\ Stored(req[p].walletId)
        /\ FindById(req[p].walletId)[1].balance = 0

\* C3: once no transact call is in flight, each wallet's balance is its funding
\* plus the amounts of exactly the transact calls answered 200, and no two
\* entries of a wallet's log have the same id.
C3_NoLostUpdate ==
    NoTransactInFlight =>
        \A i \in 1..Len(wallets) :
            LET w == wallets[i] IN
            /\ w.balance = w.transactions[1].amount + okSum[w.id]
            /\ \A j, k \in 1..Len(w.transactions) :
                   j # k => w.transactions[j].id # w.transactions[k].id

\* two concurrent credits on one wallet, one applied and one reported failed
C3_Witness ==
    /\ NoTransactInFlight
    /\ \E p, q \in Procs :
        /\ p # q /\ faults = 0
        /\ Answered(p, "transact") /\ Answered(q, "transact")
        /\ req[p].walletId = req[q].walletId
        /\ req[p].amount > 0 /\ req[q].amount > 0
        /\ resp[p].status = 200 /\ resp[q].status = 500

\* C4: a debit whose read finds a wallet with balance + amount < 0 is answered
\* 400 "Insufficient funds" at that step, and the call writes nothing: the
\* stored wallets are the same before and after, and no write is pending.
C4_InsufficientFundsRejected ==
    [][\A p \in Procs :
          ( /\ pc[p] = "t_find" /\ pc'[p] # "t_find" /\ faults' = faults
            /\ Stored(req[p].walletId)
            /\ req[p].amount < 0
            /\ FindById(req[p].walletId)[1].balance + req[p].amount < 0 )
          => /\ pc'[p] = "done"
             /\ resp'[p] = Respond(400, "Insufficient funds")
             /\ wallets' = wallets
             /\ pending'[p] = <<>>]_vars

\* a debit on a stored wallet was refused for insufficient funds
C4_Witness ==
    \E p \in Procs :
        /\ Answered(p, "transact")
        /\ resp[p].msg = "Insufficient funds"
        /\ Stored(req[p].walletId)
        /\ FindById(req[p].walletId)[1].balance + req[p].amount < 0

\* C5 as stated: without store errors, a transact call with amount 0 is
\* answered 400 whatever the wallet id.
C5_ZeroAmountAlways400 ==
    \A p \in Procs :
        (Answered(p, "transact") /\ req[p].amount = 0 /\ faults = 0)
            => resp[p].status = 400

\* C5 amended: a transact call with amount 0 never changes a stored wallet;
\* when its read finds the wallet it is answered 400 "Invalid amount entered";
\* when no wallet has the id the lookup throws first and it is answered 500.
C5_ZeroAmountRejected ==
    [][\A p \in Procs :
          (req[p].op = "transact" /\ req[p].amount = 0 /\ InFlight(p)
             /\ pc'[p] # pc[p])
          => /\ wallets' = wallets
             /\ pending'[p] = <<>>
             /\ (pc[p] = "t_find" /\ faults' = faults) =>
                   IF Stored(req[p].walletId)
                     THEN /\ pc'[p] = "done"
                          /\ resp'[p] = Respond(400, "Invalid amount entered")
                     ELSE pc'[p] = "t_catch"
             /\ pc[p] = "t_catch" =>
                   /\ pc'[p] = "done"
                   /\ resp'[p] = Respond(500, "error")]_vars

\* zero amounts answered both ways: 400 on a stored wallet, 500 on an unknown id
C5_Witness ==
    \E p, q \in Procs :
        /\ faults = 0
        /\ Answered(p, "transact") /\ req[p].amount = 0
        /\ Stored(req[p].walletId) /\ resp[p].status = 400
        /\ Answered(q, "transact") /\ req[q].amount = 0
        /\ ~Stored(req[q].walletId) /\ resp[q].status = 500

\* C6: a setup call that starts after a setup call with the same name has
\* completed returns the id that call returned and creates nothing.
C6_SetupIdempotent ==
    \A p \in Procs :
        (Answered(p, "setup") /\ resp[p].status = 200 /\ req[p].prior # {})
            => /\ req[p].prior = {resp[p].id}
               /\ resp[p].msg = "exists"

\* C7: no two stored wallets have the same name.
C7_NamesUnique ==
    \A i, j \in 1..Len(wallets) :
        i # j => wallets[i].name # wallets[j].name

\* C8 as stated: without store errors, setup with a name that a completed
\* setup call already returned a wallet for is answered 200 for every balance.
C8_ExistingNameAlways200 ==
    \A p \in Procs :
        (Answered(p, "setup") /\ req[p].prior # {} /\ faults = 0)
            => resp[p].status = 200

\* C8 amended: setup with a balance that is not > 0 is answered 400 whether or
\* not the name exists (validation precedes the lookup); with a valid balance
\* and an existing name it is answered 200 with a stored wallet of that name
\* and creates nothing.
C8_ValidatedThenExisting ==
    \A p \in Procs :
        Answered(p, "setup") =>
            /\ ~(req[p].balance > 0) => resp[p] = Respond(400, "validation")
            /\ (req[p].balance > 0 /\ req[p].prior # {} /\ resp[p].msg # "error")
                  => /\ resp[p].status = 200
                     /\ resp[p].msg = "exists"
                     /\ \E i \in 1..Len(wallets) :
                            /\ wallets[i].id = resp[p].id
                            /\ wallets[i].name = req[p].name

\* an invalid balance refused although the name exists, next to a valid one
\* answered with the existing wallet
C8_Witness ==
    \E p, q \in Procs :
        /\ Answered(p, "setup") /\ req[p].prior # {}
        /\ req[p].balance = 0 /\ resp[p].status = 400
        /\ Answered(q, "setup") /\ req[q].prior # {}
        /\ req[q].name = req[p].name
        /\ resp[q].msg = "exists"

\* C9: a transact call that has sent its response has ended its session with
\* its transaction committed or aborted, and no session is open once no
\* transact call is in flight.
C9_SessionReleased ==
    /\ \A p \in Procs :
          Answered(p, "transact") =>
              /\ session[p] = "ended"
              /\ txn[p] \in {"committed", "aborted"}
    /\ NoTransactInFlight => openSessions = 0

\* the slice C10 describes: offset max(0, skip), length
\* min(max(1, limit), logLength - offset), empty when the offset is past the end
ClaimedSlice(log, skip, limit) ==
    LET off == Max(0, skip)
        len == Min(Max(1, limit), Len(log) - off)
    IN  IF off >= Len(log) THEN <<>>
        ELSE [k \in 1..len |-> log[off + k]]

\* the same with a limit of 0 read as the default limit
AmendedSlice(log, skip, limit) ==
    LET off == Max(0, skip)
        lim == IF limit = 0 THEN DefaultLimit ELSE Max(1, limit)
        len == Min(lim, Len(log) - off)
    IN  IF off >= Len(log) THEN <<>>
        ELSE [k \in 1..len |-> log[off + k]]

SameEntries(txs, entries, walletId) ==
    /\ Len(txs) = Len(entries)
    /\ \A k \in 1..Len(txs) :
          /\ txs[k].id = entries[k].id
          /\ txs[k].amount = entries[k].amount
          /\ txs[k].type = entries[k].type
          /\ txs[k].walletId = walletId

\* C10 as stated: a 200 answer of listTransactions holds the log entries from
\* offset max(0, skip), min(max(1, limit), logLength - offset) of them, in order.
C10_SliceAsClaimed ==
    \A p \in Procs :
        (Answered(p, "fetch") /\ resp[p].status = 200)
            => SameEntries(resp[p].txs,
                           ClaimedSlice(resp[p].seen, req[p].skip, req[p].limit),
                           req[p].walletId)

\* C10 amended: as stated, except that a limit of 0 counts as the default
\* limit 10; an offset at or past the end of the log gives an empty 200 answer.
C10_SliceWithDefault ==
    \A p \in Procs :
        (Answered(p, "fetch") /\ Stored(req[p].walletId) /\ resp[p].msg # "Error fetching transactions")
            => /\ resp[p].status = 200
               /\ SameEntries(resp[p].txs,
                              AmendedSlice(resp[p].seen, req[p].skip, req[p].limit),
                              req[p].walletId)

\* limit 0 on a log of two entries returned both; an offset past the end
\* returned an empty list with status 200
C10_Witness ==
    \E p, q \in Procs :
        /\ Answered(p, "fetch") /\ resp[p].status = 200
        /\ req[p].limit = 0 /\ Len(resp[p].seen) = 2 /\ Len(resp[p].txs) = 2
        /\ p = q

Acts(p) == req'[p] # req[p] \/ resp'[p] # resp[p] \/ pc'[p] # pc[p]
IsPrefix(a, b) == Len(a) <= Len(b) /\ SubSeq(b, 1, Len(a)) = a
LogOf(id) == FindById(id)[1].transactions

\* C11: the log of every wallet has 1 + (number of transact calls on it
\* answered 200) entries, so failed calls never add to it; and a 200 answer of
\* getSummary carries the stored balance and that log length.
C11_SummaryCountsSuccesses ==
    /\ [](\A i \in 1..Len(wallets) :
             Len(wallets[i].transactions) = 1 + okCount[wallets[i].id])
    /\ [][\A p \in Procs :
             (Acts(p) /\ req'[p].op = "get" /\ pc'[p] = "done"
                /\ resp'[p].status = 200)
             => LET f == FindById(req'[p].walletId) IN
                /\ f # <<>>
                /\ resp'[p].balance = f[1].balance
                /\ resp'[p].total = Len(f[1].transactions)
                /\ resp'[p].total = 1 + okCount[f[1].id]]_vars

\* a summary taken after one successful debit: balance 0, total 2
C11_Witness ==
    \E p \in Procs :
        /\ Answered(p, "get") /\ resp[p].status = 200
        /\ resp[p].total = 2 /\ resp[p].balance = 0
        /\ okCount[req[p].walletId] = 1

\* C12: in every step each wallet keeps its place and its old log is a prefix
\* of its new log; a transact call answered 200 extends the log of its wallet
\* by exactly one entry, the last, carrying its amount and the returned id.
C12_LogAppendOnly ==
    [][/\ Len(wallets') >= Len(wallets)
       /\ \A i \in 1..Len(wallets) :
             /\ wallets'[i].id = wallets[i].id
             /\ IsPrefix(wallets[i].transactions, wallets'[i].transactions)
       /\ \A p \in Procs :
             (pc[p] = "t_commit" /\ pc'[p] = "done") =>
                LET old == LogOf(req[p].walletId)
                    new == LogOf(req[p].walletId)'
                IN  /\ Len(new) = Len(old) + 1
                    /\ SubSeq(new, 1, Len(old)) = old
                    /\ new[Len(new)].amount = req[p].amount
                    /\ new[Len(new)].id = resp'[p].txId]_vars

\* a second successful transact appended the third entry of a log
C12_Witness ==
    \E p \in Procs :
        /\ Answered(p, "transact") /\ resp[p].status = 200
        /\ Stored(req[p].walletId)
        /\ Len(LogOf(req[p].walletId)) = 3
        /\ LogOf(req[p].walletId)[3].id = resp[p].txId

\* C13: when the save or the commit of a transact call fails after the update
\* was computed, the catch aborts the transaction, ends the session, answers
\* 500 and leaves the stored wallets as they were.
C13_FailedWriteRolledBack ==
    [][\A p \in Procs :
          (pc[p] = "t_catch" /\ local[p] # <<>> /\ pc'[p] # "t_catch")
          => /\ pc'[p] = "done"
             /\ resp'[p].status = 500
             /\ txn'[p] = "aborted"
             /\ session'[p] = "ended"
             /\ pending'[p] = <<>>
             /\ wallets' = wallets]_vars

\* the answer a handler's catch gives to a rejected store call
StoreFailureAnswer(p) ==
    \/ req[p].op = "setup" /\ resp[p].msg = "error"
    \/ req[p].op = "transact" /\ resp[p].msg = "error" /\ Stored(req[p].walletId)
    \/ req[p].op = "fetch" /\ resp[p].msg = "Error fetching transactions"
    \/ req[p].op = "get" /\ resp[p].msg = "Error fetching wallet details"

\* C14: a store failure is answered with a 5xx status in every operation.
C14_StoreFailureIs5xx ==
    \A p \in Procs :
        (pc[p] = "done" /\ StoreFailureAnswer(p))
            => resp[p].status \in 500..599

\* C15: every log entry is CREDIT when its amount is >= 0 and DEBIT when it is
\* < 0, and the funding entry of every wallet is CREDIT.
C15_TypeMatchesSign ==
    \A i \in 1..Len(wallets) :
        /\ wallets[i].transactions[1].type = "CREDIT"
        /\ \A k \in 1..Len(wallets[i].transactions) :
              LET t == wallets[i].transactions[k] IN
              /\ t.amount >= 0 => t.type = "CREDIT"
              /\ t.amount < 0 => t.type = "DEBIT"

\* a log with its funding, a credit and a debit
C15_Witness ==
    \E i \in 1..Len(wallets) :
        /\ Len(wallets[i].transactions) = 3
        /\ \E k \in 2..3 : wallets[i].transactions[k].type = "DEBIT"
        /\ \E k \in 2..3 : wallets[i].transactions[k].type = "CREDIT"

PastRead(p) == pc[p] \in {"t_save", "t_commit"}

\* C16 as stated: no two transact calls on one wallet are at once past their
\* read and before their commit or abort.
C16_CriticalSection ==
    \A p, q \in Procs :
        (p # q /\ PastRead(p) /\ PastRead(q))
            => req[p].walletId # req[q].walletId

\* C17: what getSummary and listTransactions answer is one stored version of
\* the wallet: the log read is a prefix of the stored log, and a summary's
\* balance is the sum of the first `total` entries.
C17_ReadsSeeOneVersion ==
    \A p \in Procs :
        /\ (Answered(p, "get") /\ resp[p].status = 200) =>
              /\ Stored(req[p].walletId)
              /\ resp[p].total \in 1..Len(LogOf(req[p].walletId))
              /\ resp[p].balance =
                    SumAmounts(SubSeq(LogOf(req[p].walletId), 1, resp[p].total))
        /\ (Answered(p, "fetch") /\ resp[p].status = 200) =>
              /\ Stored(req[p].walletId)
              /\ IsPrefix(resp[p].seen, LogOf(req[p].walletId))

\* a summary answered while a transact on the same wallet held its
\* uncommitted write
C17_Witness ==
    \E p, q \in Procs :
        /\ Answered(p, "get") /\ resp[p].status = 200
        /\ pc[q] = "t_commit" /\ pending[q] # <<>>
        /\ pending[q][1].id = req[p].walletId
        /\ resp[p].total = Len(pending[q][1].transactions) - 1

\* C18: getSummary with an id that is no uuid is answered 400 "Invalid wallet
\* ID format" in the step that takes the request, and no store call is made:
\* the answer is none a store call produces (200, 404, 500) and no store
\* failure can hit the call.
C18_MalformedIdNoStoreAccess ==
    [][\A p \in Procs :
          (Acts(p) /\ req'[p].op = "get" /\ req'[p].walletId = Malformed)
          => /\ pc'[p] = "done"
             /\ resp'[p] = Respond(400, "Invalid wallet ID format")
             /\ faults' = faults
             /\ wallets' = wallets]_vars

\* a malformed id answered 400 while the store holds a wallet
C18_Witness ==
    \E p \in Procs :
        /\ Answered(p, "get") /\ req[p].walletId = Malformed
        /\ resp[p].status = 400
        /\ Len(wallets) > 0

\* C19: the stored wallets change only in the save of a setup, which adds a
\* wallet and leaves the others alone, and in the commit of a transact, which
\* changes the addressed wallet alone; getSummary and listTransactions change
\* none.
C19_FrameEffect ==
    [][/\ wallets' # wallets =>
            \E p \in Procs :
               \/ /\ pc[p] = "s_save" /\ pc'[p] = "done"
                  /\ Len(wallets') = Len(wallets) + 1
                  /\ \A i \in 1..Len(wallets) : wallets'[i] = wallets[i]
               \/ /\ pc[p] = "t_commit" /\ pc'[p] = "done"
                  /\ Len(wallets') = Len(wallets)
                  /\ \A i \in 1..Len(wallets) :
                        wallets[i].id # req[p].walletId
                           => wallets'[i] = wallets[i]
       /\ \A p \in Procs :
            (Acts(p) /\ req'[p].op \in {"get", "fetch"})
               => wallets' = wallets]_vars

\* two wallets, one of them changed by a transact, the other as funded
C19_Witness ==
    \E i, j \in 1..Len(wallets) :
        /\ i # j
        /\ Len(wallets[i].transactions) = 2
        /\ Len(wallets[j].transactions) = 1
        /\ wallets[j].balance = 2

====
